---- MODULE Spec2Model ----
(***************************************************************************)
(* The pages of the web client: the conversation list page, the take       *)
(* conversation page and the signup page.  One page is mounted by the      *)
(* router; its hooks are the state, its effects, event handlers and the    *)
(* completions of its network calls are the actions.                       *)
(*                                                                         *)
(* Strings the code inspects (form fields, server messages, names) are     *)
(* sequences of one-character strings.  A value that may be undefined is a *)
(* sequence of length at most one: None or Some(v).                        *)
(***************************************************************************)
EXTENDS Integers, Sequences, FiniteSets, TLC

VARIABLES
    page,            \* the page the router mounted: "list", "take" or "signup"
    phase,           \* "mounting" (before the first render), "rendered" (rendered,
                     \* the callback of useEffect pending), "mounted", "unmounted"
    props,           \* the page's props: conversationId, groot
    search,          \* window.location.search: the redirect and error parameters
    currentError,    \* useState: the error message of the mounted page
    conversations,   \* list page, useState
    conversation,    \* take page, useState
    currentQuestion, \* take page, useState
    selectedOption,  \* take page, useState
    signUpForm,      \* signup page, useReducer
    isLoading,       \* signup page, useState
    call,            \* signup page: the running signUp call and the form it closed over
    storage,         \* browser storage: the 'user' and 'tokens' entries
    timers,          \* pending setTimeout callbacks
    inflight,        \* per endpoint, the requests awaiting their response
    sent,            \* per endpoint, the number of requests issued so far
    failed,          \* per endpoint, the number of error responses received so far
    navigations,     \* the calls of route(), in order
    threw,           \* an event handler ended in an uncaught TypeError
    clicks,          \* clicks on the next button / the signup button so far
    event,           \* the handler that ran last
    received,        \* the response that handler was given, if it completes a request
    lastSignUpError  \* the code of the last error response to the signup request,
                     \* and the message shown for it

vars == <<page, phase, props, search, currentError, conversations, conversation,
          currentQuestion, selectedOption, signUpForm, isLoading, call, storage,
          timers, inflight, sent, failed, navigations, threw, clicks, event,
          received, lastSignUpError>>

----------------------------------------------------------------------------
(* Bounds of the model. *)

\* Clicks on the next button (take page) or the signup button (signup page).
MaxClicks == 3
\* Length of the list a GET /conversations response carries.
MaxConversations == 2

----------------------------------------------------------------------------
(* Optional values and strings. *)

None == << >>
Some(v) == << v >>
Get(o) == o[1]

\* The code units a string is made of, in collation order for the letters.
Alphabet == <<"a", "b", "c", "d", "e", "h", "i", "l", "o", "p", "r", "s", "t", "w">>

\* \s of a JavaScript regular expression, among the characters used here.
Whitespace == {" ", "\t", "\n"}
\* The line terminators, which . does not match.
LineTerminators == {"\n"}

\* String.prototype.includes
includes(text, needle) ==
    \E i \in 0..(Len(text) - Len(needle)) :
        \A j \in 1..Len(needle) : text[i + j] = needle[j]

Rank(c) == CHOOSE i \in 1..Len(Alphabet) : Alphabet[i] = c

\* String.prototype.localeCompare on lower-case letters: negative, zero or
\* positive as a sorts before, with or after b.
RECURSIVE localeCompare(_, _)
localeCompare(a, b) ==
    IF a = << >> /\ b = << >> THEN 0
    ELSE IF a = << >> THEN -1
    ELSE IF b = << >> THEN 1
    ELSE IF Rank(Head(a)) < Rank(Head(b)) THEN -1
    ELSE IF Rank(Head(a)) > Rank(Head(b)) THEN 1
    ELSE localeCompare(Tail(a), Tail(b))

----------------------------------------------------------------------------
(* The utilities the pages import. *)

\* @/utilities/text: the lookup table of user-facing messages.  The text of
\* an entry is static and unknown here: one symbol, unique to its key.
ErrorKeys == {"option-was-not-selected", "incomplete-input",
              "invalid-email-address", "weak-password", "user-already-exists"}
errors == [k \in ErrorKeys |-> <<"#", k>>]
\* errors.get(key): undefined for a key the table does not hold.
errorsGet(key) == IF key \in ErrorKeys THEN Some(errors[key]) ELSE None

\* @/utilities/http: a response is an error object or a success payload.
isErrorResponse(response) == "error" \in DOMAIN response

\* The endpoints of the REST API the pages call.
GetConversations == "GET /conversations"
GetConversation == "GET /conversations/:id"
GetQuestions == "GET /conversations/:id/questions"
PutAnswer == "PUT /conversations/:id/questions/:id/answer"
PostSignUp == "POST /auth/signup"
PutJoin == "PUT /groups/join"
Endpoints == {GetConversations, GetConversation, GetQuestions, PutAnswer,
              PostSignUp, PutJoin}

\* fetch(request): the request is in flight and counted.
Issue(fl, endpoint, request) ==
    [fl EXCEPT ![endpoint] = Append(@, request)]
Count(cnt, endpoint) ==
    [cnt EXCEPT ![endpoint] = @ + 1]
\* The response to the i-th request in flight at the endpoint arrived.
Settle(fl, endpoint, i) ==
    [fl EXCEPT ![endpoint] = SubSeq(@, 1, i - 1) \o SubSeq(@, i + 1, Len(@))]

\* route(url, replace) of preact-router: the navigation is recorded; the
\* router then replaces the page.
route(url, replace, by) ==
    Append(navigations, [to |-> url, replace |-> replace, by |-> by])

----------------------------------------------------------------------------
(* What the server may answer. *)

MsgNotFound == <<"l", "o", "s", "t">>
MsgDenied == <<"d", "e", "a", "d">>
ServerMessages == {MsgNotFound, MsgDenied}
ServerErrors == {[error |-> [code |-> "entity-not-found", message |-> m]] :
                     m \in ServerMessages}

ConvA == [id |-> "c1", name |-> <<"b", "a">>]
ConvB == [id |-> "c2", name |-> <<"a">>]
ConvC == [id |-> "c3", name |-> <<"b", "a">>]
Conversations == {ConvA, ConvB, ConvC}

RECURSIVE SeqsUpTo(_, _)
SeqsUpTo(S, n) ==
    IF n = 0 THEN {<< >>}
    ELSE LET shorter == SeqsUpTo(S, n - 1)
         IN shorter \cup {Append(s, x) : s \in shorter, x \in S}

TypedValues == {<< >>, <<"h", "i">>}

OptSelect == [position |-> 0, type |-> "select", attribute |-> None]
OptInput == [position |-> 1, type |-> "input",
             attribute |-> Some([id |-> "a1", value |-> None])]
OptBare == [position |-> 1, type |-> "input", attribute |-> None]

QuestionA == [id |-> "q1", first |-> TRUE, last |-> FALSE,
              options |-> <<OptSelect, OptInput>>]
QuestionB == [id |-> "q2", first |-> FALSE, last |-> TRUE,
              options |-> <<OptSelect, OptBare>>]
QuestionLists == {<<QuestionA, QuestionB>>, <<QuestionB, QuestionA>>,
                  <<QuestionB>>, << >>}

----------------------------------------------------------------------------
(* The conversation list page. *)

\* Array.prototype.sort with the comparator of the page: stable, ascending
\* by name.
InsertByName(c, sorted) ==
    LET after == {i \in 1..Len(sorted) : localeCompare(sorted[i].name, c.name) <= 0}
        k == IF after = {} THEN 0 ELSE CHOOSE i \in after : \A j \in after : j <= i
    IN SubSeq(sorted, 1, k) \o <<c>> \o SubSeq(sorted, k + 1, Len(sorted))

RECURSIVE sortByName(_)
sortByName(list) ==
    IF list = << >> THEN << >>
    ELSE InsertByName(list[Len(list)], sortByName(SubSeq(list, 1, Len(list) - 1)))

\* The first render of the list page: the Create button and the loading
\* indicator are rendered, and the callback of useEffect is scheduled.
RenderList ==
    /\ page = "list" /\ phase = "mounting"
    /\ phase' = "rendered"
    /\ event' = "render" /\ received' = None
    /\ UNCHANGED <<page, props, search, currentError, conversations, conversation,
                   currentQuestion, selectedOption, signUpForm, isLoading, call,
                   storage, timers, inflight, sent, failed, navigations, threw,
                   clicks, lastSignUpError>>

\* useEffect of the list page: fetchConversations() is called once.  The
\* callback does not run when a button has unmounted the page before it.
MountList ==
    /\ page = "list" /\ phase = "rendered"
    /\ phase' = "mounted"
    /\ inflight' = Issue(inflight, GetConversations,
                         [url |-> <<"/conversations">>, method |-> "get"])
    /\ sent' = Count(sent, GetConversations)
    /\ event' = "mount" /\ received' = None
    /\ UNCHANGED <<page, props, search, currentError, conversations, conversation,
                   currentQuestion, selectedOption, signUpForm, isLoading, call,
                   storage, timers, failed, navigations, threw, clicks, lastSignUpError>>

\* The completion of fetchConversations(): sort and store, or show the error.
fetchConversationsDone(i, response) ==
    /\ inflight' = Settle(inflight, GetConversations, i)
    /\ IF isErrorResponse(response)
       THEN /\ currentError' = Some(response.error.message)
            /\ failed' = Count(failed, GetConversations)
            /\ UNCHANGED conversations
       ELSE /\ conversations' = Some(sortByName(response.conversations))
            /\ UNCHANGED <<currentError, failed>>
    /\ event' = "fetchConversations" /\ received' = Some(response)
    /\ UNCHANGED <<page, phase, props, search, conversation, currentQuestion,
                   selectedOption, signUpForm, isLoading, call, storage, timers,
                   sent, navigations, threw, clicks, lastSignUpError>>

ConversationsResponse ==
    /\ page = "list"
    /\ \E i \in 1..Len(inflight[GetConversations]) :
       \E response \in ServerErrors \cup
                       {[conversations |-> l] :
                            l \in SeqsUpTo(Conversations, MaxConversations)} :
           fetchConversationsDone(i, response)

\* The buttons of the list page: Take and Edit of a row, and Create.
ListButton(url) ==
    /\ navigations' = route(url, FALSE, "button")
    /\ phase' = "unmounted"
    /\ event' = "button" /\ received' = None
    /\ UNCHANGED <<page, props, search, currentError, conversations, conversation,
                   currentQuestion, selectedOption, signUpForm, isLoading, call,
                   storage, timers, inflight, sent, failed, threw, clicks, lastSignUpError>>

\* The list page is rendered, with its buttons.
ListRendered == page = "list" /\ phase \in {"rendered", "mounted"}

ClickTake ==
    /\ ListRendered /\ conversations # None
    /\ \E i \in 1..Len(Get(conversations)) :
           ListButton(<<"/conversations/", Get(conversations)[i].id>>)

ClickEdit ==
    /\ ListRendered /\ conversations # None
    /\ props.groot
    /\ \E i \in 1..Len(Get(conversations)) :
           ListButton(<<"/conversations/", Get(conversations)[i].id, "/edit">>)

ClickCreate ==
    /\ ListRendered
    /\ props.groot
    /\ ListButton(<<"/conversations/create">>)

----------------------------------------------------------------------------
(* The take conversation page. *)

\* Array.prototype.find with the predicate of the page: the first question
\* flagged first, or undefined.
findFirst(questions) ==
    LET hits == {i \in 1..Len(questions) : questions[i].first}
    IN IF hits = {} THEN None
       ELSE Some(questions[CHOOSE i \in hits : \A j \in hits : i <= j])

\* The first render of the take page: the loading indicator is rendered,
\* and the callback of useEffect is scheduled.
RenderTake ==
    /\ page = "take" /\ phase = "mounting"
    /\ phase' = "rendered"
    /\ event' = "render" /\ received' = None
    /\ UNCHANGED <<page, props, search, currentError, conversations, conversation,
                   currentQuestion, selectedOption, signUpForm, isLoading, call,
                   storage, timers, inflight, sent, failed, navigations, threw,
                   clicks, lastSignUpError>>

\* useEffect of the take page: fetchConversation() and fetchQuestions() are
\* both called, neither awaiting the other.
MountTake ==
    /\ page = "take" /\ phase = "rendered"
    /\ phase' = "mounted"
    /\ inflight' =
           Issue(Issue(inflight, GetConversation,
                       [url |-> <<"/conversations/", props.conversationId>>,
                        method |-> "get"]),
                 GetQuestions,
                 [url |-> <<"/conversations/", props.conversationId, "/questions">>,
                  method |-> "get"])
    /\ sent' = Count(Count(sent, GetConversation), GetQuestions)
    /\ event' = "mount" /\ received' = None
    /\ UNCHANGED <<page, props, search, currentError, conversations, conversation,
                   currentQuestion, selectedOption, signUpForm, isLoading, call,
                   storage, timers, failed, navigations, threw, clicks, lastSignUpError>>

\* The completion of fetchConversation(): .then(setConversation), or .catch.
fetchConversationDone(i, response) ==
    /\ inflight' = Settle(inflight, GetConversation, i)
    /\ IF isErrorResponse(response)
       THEN /\ currentError' = Some(response.error.message)
            /\ failed' = Count(failed, GetConversation)
            /\ UNCHANGED conversation
       ELSE /\ conversation' = Some(response.conversation)
            /\ UNCHANGED <<currentError, failed>>
    /\ event' = "fetchConversation" /\ received' = Some(response)
    /\ UNCHANGED <<page, phase, props, search, conversations, currentQuestion,
                   selectedOption, signUpForm, isLoading, call, storage, timers,
                   sent, navigations, threw, clicks, lastSignUpError>>

ConversationResponse ==
    /\ page = "take"
    /\ \E i \in 1..Len(inflight[GetConversation]) :
       \E response \in ServerErrors \cup
                       {[conversation |-> c] : c \in {ConvA, ConvB}} :
           fetchConversationDone(i, response)

\* A variant of fetchQuestionsDone that fetches the questions again when
\* the request failed.
fetchQuestionsDoneRetries(i, response) ==
    /\ IF isErrorResponse(response)
       THEN /\ currentError' = Some(response.error.message)
            /\ failed' = Count(failed, GetQuestions)
            /\ inflight' = Issue(Settle(inflight, GetQuestions, i), GetQuestions,
                                 inflight[GetQuestions][i])
            /\ sent' = Count(sent, GetQuestions)
            /\ UNCHANGED currentQuestion
       ELSE /\ currentQuestion' = findFirst(response.questions)
            /\ inflight' = Settle(inflight, GetQuestions, i)
            /\ UNCHANGED <<currentError, failed, sent>>
    /\ event' = "fetchQuestions" /\ received' = Some(response)
    /\ UNCHANGED <<page, phase, props, search, conversations, conversation,
                   selectedOption, signUpForm, isLoading, call, storage, timers,
                   navigations, threw, clicks, lastSignUpError>>

\* The completion of fetchQuestions(): the first question is rendered, or
\* the error shown.
fetchQuestionsDone(i, response) ==
    /\ inflight' = Settle(inflight, GetQuestions, i)
    /\ IF isErrorResponse(response)
       THEN /\ currentError' = Some(response.error.message)
            /\ failed' = Count(failed, GetQuestions)
            /\ UNCHANGED currentQuestion
       ELSE /\ currentQuestion' = findFirst(response.questions)
            /\ UNCHANGED <<currentError, failed>>
    /\ event' = "fetchQuestions" /\ received' = Some(response)
    /\ UNCHANGED <<page, phase, props, search, conversations, conversation,
                   selectedOption, signUpForm, isLoading, call, storage, timers,
                   sent, navigations, threw, clicks, lastSignUpError>>

QuestionsResponse ==
    /\ page = "take"
    /\ \E i \in 1..Len(inflight[GetQuestions]) :
       \E response \in ServerErrors \cup
                       {[questions |-> l] : l \in QuestionLists} :
           fetchQuestionsDone(i, response)

\* The question and its options are rendered, with the next button, only
\* while currentQuestion is defined.
QuestionRendered ==
    page = "take" /\ phase = "mounted" /\ currentQuestion # None

\* OptionItem: a click on the radio button of an option, or the focus of
\* its text input, calls update(option), which is setSelectedOption.
SelectOption ==
    /\ QuestionRendered
    /\ \E i \in 1..Len(Get(currentQuestion).options) :
           selectedOption' = Some(Get(currentQuestion).options[i])
    /\ event' = "update" /\ received' = None
    /\ UNCHANGED <<page, phase, props, search, currentError, conversations,
                   conversation, currentQuestion, signUpForm, isLoading, call,
                   storage, timers, inflight, sent, failed, navigations, threw,
                   clicks, lastSignUpError>>

\* OptionItem: typing in the text input of an input option stores the value
\* in the option's attribute, when it has one, and selects the option.  The
\* option is the object the question holds.
TypeInput ==
    /\ QuestionRendered
    /\ \E i \in 1..Len(Get(currentQuestion).options) :
       \E value \in TypedValues :
       LET option == Get(currentQuestion).options[i]
           typed == IF option.attribute # None
                    THEN [option EXCEPT !.attribute =
                              Some([Get(@) EXCEPT !.value = Some(value)])]
                    ELSE option
       IN /\ option.type = "input"
          /\ currentQuestion' =
                 Some([Get(currentQuestion) EXCEPT !.options[i] = typed])
          /\ selectedOption' = Some(typed)
    /\ event' = "update" /\ received' = None
    /\ UNCHANGED <<page, phase, props, search, currentError, conversations,
                   conversation, signUpForm, isLoading, call, storage, timers,
                   inflight, sent, failed, navigations, threw, clicks, lastSignUpError>>

\* The request answerQuestion builds for fetch.
AnswerRequest(conv, question, option) ==
    [url |-> <<"/conversations/", conv.id, "/questions/", question.id, "/answer">>,
     method |-> "put",
     json |-> [position |-> option.position,
               input |-> IF option.type = "select" THEN None
                         ELSE Get(option.attribute).value]]

\* What evaluating the request of answerQuestion reads of an undefined
\* value, if anything: the TypeError ends the handler before fetch is called.
AnswerThrows ==
    IF conversation = None THEN "conversation.id"
    ELSE IF Get(selectedOption).type # "select"
            /\ Get(selectedOption).attribute = None THEN "attribute.value"
    ELSE "none"

\* A variant of answerQuestion that resets the question and the option
\* before it checks that an option is selected.
answerQuestionResetsFirst ==
    /\ QuestionRendered
    /\ clicks < MaxClicks
    /\ clicks' = clicks + 1
    /\ event' = "answerQuestion" /\ received' = None
    /\ currentQuestion' = None
    /\ selectedOption' = None
    /\ IF selectedOption = None
       THEN /\ currentError' = errorsGet("option-was-not-selected")
            /\ UNCHANGED <<inflight, sent, threw>>
       ELSE /\ currentError' = None
            /\ IF AnswerThrows # "none"
               THEN /\ threw' = AnswerThrows
                    /\ UNCHANGED <<inflight, sent>>
               ELSE /\ inflight' = Issue(inflight, PutAnswer,
                                         AnswerRequest(Get(conversation),
                                                       Get(currentQuestion),
                                                       Get(selectedOption)))
                    /\ sent' = Count(sent, PutAnswer)
                    /\ UNCHANGED threw
    /\ UNCHANGED <<page, phase, props, search, conversations, conversation,
                   signUpForm, isLoading, call, storage, timers, failed,
                   navigations, lastSignUpError>>

\* A variant of answerQuestion that does not reset the selected option
\* before the request.
answerQuestionKeepsOption ==
    /\ QuestionRendered
    /\ clicks < MaxClicks
    /\ clicks' = clicks + 1
    /\ event' = "answerQuestion" /\ received' = None
    /\ UNCHANGED selectedOption
    /\ IF selectedOption = None
       THEN /\ currentError' = errorsGet("option-was-not-selected")
            /\ UNCHANGED <<currentQuestion, inflight, sent, threw>>
       ELSE /\ currentError' = None
            /\ currentQuestion' = None
            /\ IF AnswerThrows # "none"
               THEN /\ threw' = AnswerThrows
                    /\ UNCHANGED <<inflight, sent>>
               ELSE /\ inflight' = Issue(inflight, PutAnswer,
                                         AnswerRequest(Get(conversation),
                                                       Get(currentQuestion),
                                                       Get(selectedOption)))
                    /\ sent' = Count(sent, PutAnswer)
                    /\ UNCHANGED threw
    /\ UNCHANGED <<page, phase, props, search, conversations, conversation,
                   signUpForm, isLoading, call, storage, timers, failed,
                   navigations, lastSignUpError>>

\* A variant of answerQuestion that leaves the question displayed while
\* the request is awaited.
answerQuestionKeepsQuestion ==
    /\ QuestionRendered
    /\ clicks < MaxClicks
    /\ clicks' = clicks + 1
    /\ event' = "answerQuestion" /\ received' = None
    /\ UNCHANGED currentQuestion
    /\ IF selectedOption = None
       THEN /\ currentError' = errorsGet("option-was-not-selected")
            /\ UNCHANGED <<selectedOption, inflight, sent, threw>>
       ELSE /\ currentError' = None
            /\ selectedOption' = None
            /\ IF AnswerThrows # "none"
               THEN /\ threw' = AnswerThrows
                    /\ UNCHANGED <<inflight, sent>>
               ELSE /\ inflight' = Issue(inflight, PutAnswer,
                                         AnswerRequest(Get(conversation),
                                                       Get(currentQuestion),
                                                       Get(selectedOption)))
                    /\ sent' = Count(sent, PutAnswer)
                    /\ UNCHANGED threw
    /\ UNCHANGED <<page, phase, props, search, conversations, conversation,
                   signUpForm, isLoading, call, storage, timers, failed,
                   navigations, lastSignUpError>>

\* answerQuestion up to its await, run by a click on the next button.
answerQuestion ==
    /\ QuestionRendered
    /\ clicks < MaxClicks
    /\ clicks' = clicks + 1
    /\ event' = "answerQuestion" /\ received' = None
    /\ IF selectedOption = None
       THEN /\ currentError' = errorsGet("option-was-not-selected")
            /\ UNCHANGED <<currentQuestion, selectedOption, inflight, sent, threw>>
       ELSE /\ currentError' = None
            /\ currentQuestion' = None
            /\ selectedOption' = None
            /\ IF AnswerThrows # "none"
               THEN /\ threw' = AnswerThrows
                    /\ UNCHANGED <<inflight, sent>>
               ELSE /\ inflight' = Issue(inflight, PutAnswer,
                                         AnswerRequest(Get(conversation),
                                                       Get(currentQuestion),
                                                       Get(selectedOption)))
                    /\ sent' = Count(sent, PutAnswer)
                    /\ UNCHANGED threw
    /\ UNCHANGED <<page, phase, props, search, conversations, conversation,
                   signUpForm, isLoading, call, storage, timers, failed,
                   navigations, lastSignUpError>>

\* A variant of answerQuestionDone that routes to the list whether or not
\* the response carries a next question.
answerQuestionDoneAlwaysRoutes(i, response) ==
    /\ inflight' = Settle(inflight, PutAnswer, i)
    /\ event' = "answerQuestionDone" /\ received' = Some(response)
    /\ IF isErrorResponse(response)
       THEN /\ currentError' = Some(response.error.message)
            /\ failed' = Count(failed, PutAnswer)
            /\ UNCHANGED <<currentQuestion, navigations, phase>>
       ELSE /\ currentQuestion' = response.next
            /\ navigations' = route(<<"/conversations">>, FALSE, "answerQuestion")
            /\ phase' = "unmounted"
            /\ UNCHANGED <<currentError, failed>>
    /\ UNCHANGED <<page, props, search, conversations, conversation,
                   selectedOption, signUpForm, isLoading, call, storage, timers,
                   sent, threw, clicks, lastSignUpError>>

\* A variant of answerQuestionDone that does not return after showing the
\* error: an error response has no next question, so the page routes.
answerQuestionDoneFallsThrough(i, response) ==
    /\ inflight' = Settle(inflight, PutAnswer, i)
    /\ event' = "answerQuestionDone" /\ received' = Some(response)
    /\ IF isErrorResponse(response)
       THEN /\ currentError' = Some(response.error.message)
            /\ failed' = Count(failed, PutAnswer)
            /\ navigations' = route(<<"/conversations">>, FALSE, "answerQuestion")
            /\ phase' = "unmounted"
            /\ UNCHANGED currentQuestion
       ELSE IF response.next # None
       THEN /\ currentQuestion' = response.next
            /\ UNCHANGED <<currentError, failed, navigations, phase>>
       ELSE /\ navigations' = route(<<"/conversations">>, FALSE, "answerQuestion")
            /\ phase' = "unmounted"
            /\ UNCHANGED <<currentError, failed, currentQuestion>>
    /\ UNCHANGED <<page, props, search, conversations, conversation,
                   selectedOption, signUpForm, isLoading, call, storage, timers,
                   sent, threw, clicks, lastSignUpError>>

\* answerQuestion after its await: the error is shown, the next question is
\* rendered, or the page routes to the list.
answerQuestionDone(i, response) ==
    /\ inflight' = Settle(inflight, PutAnswer, i)
    /\ event' = "answerQuestionDone" /\ received' = Some(response)
    /\ IF isErrorResponse(response)
       THEN /\ currentError' = Some(response.error.message)
            /\ failed' = Count(failed, PutAnswer)
            /\ UNCHANGED <<currentQuestion, navigations, phase>>
       ELSE IF response.next # None
       THEN /\ currentQuestion' = response.next
            /\ UNCHANGED <<currentError, failed, navigations, phase>>
       ELSE /\ navigations' = route(<<"/conversations">>, FALSE, "answerQuestion")
            /\ phase' = "unmounted"
            /\ UNCHANGED <<currentError, failed, currentQuestion>>
    /\ UNCHANGED <<page, props, search, conversations, conversation,
                   selectedOption, signUpForm, isLoading, call, storage, timers,
                   sent, threw, clicks, lastSignUpError>>

AnswerResponse ==
    /\ page = "take"
    /\ \E i \in 1..Len(inflight[PutAnswer]) :
       \E response \in ServerErrors \cup
                       {[next |-> n] : n \in {None, Some(QuestionA), Some(QuestionB)}} :
           answerQuestionDone(i, response)

----------------------------------------------------------------------------
(* The signup page. *)

\* The lengths the password pattern accepts.
PasswordMin == 6
PasswordMax == 256

Repeat(c, n) == [i \in 1..n |-> c]

\* What the user may type in the fields of the form.
NameValues == {<<" ", "\t">>, <<"a", "l">>}
EmailValues == {<<"a", "@", "b">>, <<"a", " ", "@", "b">>, <<"a", "b">>,
                <<"@", "b">>}
PasswordValues == {Repeat("x", PasswordMin - 1), Repeat("x", PasswordMin),
                   Repeat("x", PasswordMax), Repeat("x", PasswordMax + 1)}
CodeValues == {<< >>, <<"g", "1">>}
FieldValues == [name |-> NameValues, email |-> EmailValues,
                password |-> PasswordValues, code |-> CodeValues]

\* What the server may answer to the signup and the join request.
WordPassword == <<"p", "a", "s", "s", "w", "o", "r", "d">>
MsgShort == <<"s", "h", "o", "r", "t", " ">> \o WordPassword
MsgEmail == <<"b", "a", "d", " ", "e", "m", "a", "i", "l">>
SignUpErrors == {[error |-> [code |-> c, message |-> m]] :
                     c \in {"improper-payload", "entity-already-exists",
                            "server-crash"},
                     m \in {MsgShort, MsgEmail}}
SignUpSuccess == [user |-> [id |-> "u1"], tokens |-> [bearer |-> "t1"]]
JoinSuccess == [group |-> [id |-> "g1"]]

\* @/utilities/auth: a valid session is present in browser storage.
isAuthenticated(store) == store.tokens # None

\* The target of the redirect: the 'redirect' query parameter, else '/'.
redirectTo == IF search.redirect # None THEN Get(search.redirect) ELSE <<"/">>

\* The reducer of the form.
reducer(state, action) ==
    IF action.type = "update-field"
    THEN IF action.payload = None THEN state
         ELSE [state EXCEPT ![action.field] = action.payload]
    ELSE state

\* value ?? ''
orEmpty(value) == IF value = None THEN << >> ELSE Get(value)

\* /^(?!\s*$).+/
nameTest(s) ==
    /\ ~ \A i \in 1..Len(s) : s[i] \in Whitespace
    /\ Len(s) >= 1 /\ s[1] \notin LineTerminators

\* /^\S+@\S+$/
emailTest(s) ==
    /\ \A i \in 1..Len(s) : s[i] \notin Whitespace
    /\ \E i \in 2..(Len(s) - 1) : s[i] = "@"

\* A variant of passwordTest whose lower bound is off by one.
passwordTestOffByOne(s) ==
    /\ Len(s) >= PasswordMin - 1 /\ Len(s) <= PasswordMax
    /\ \A i \in 1..Len(s) : s[i] \notin LineTerminators

\* /^.{6,256}$/
passwordTest(s) ==
    /\ Len(s) >= PasswordMin /\ Len(s) <= PasswordMax
    /\ \A i \in 1..Len(s) : s[i] \notin LineTerminators

\* The key of the message of the first check of signUp the form fails, or
\* "none".
validate(form) ==
    IF ~ nameTest(orEmpty(form.name)) THEN "incomplete-input"
    ELSE IF ~ emailTest(orEmpty(form.email)) THEN "invalid-email-address"
    ELSE IF ~ passwordTest(orEmpty(form.password)) THEN "weak-password"
    ELSE "none"

\* A variant of signUpErrorMessage that shows the server's message for
\* every code but 'entity-already-exists'.
signUpErrorMessageUnmapped(error) ==
    IF error.code = "entity-already-exists"
    THEN errorsGet("user-already-exists")
    ELSE Some(error.message)

\* The message signUp shows for an error response to the signup request.
signUpErrorMessage(error) ==
    IF error.code = "improper-payload"
    THEN IF includes(error.message, WordPassword)
         THEN errorsGet("weak-password")
         ELSE errorsGet("invalid-email-address")
    ELSE IF error.code = "entity-already-exists"
    THEN errorsGet("user-already-exists")
    ELSE Some(error.message)

NoCall == [pc |-> "idle", form |-> None]

\* A variant of SignUpPageRenders that ignores the redirect parameter.
SignUpPageRendersHome(store, navs) ==
    IF isAuthenticated(store)
    THEN [phase |-> "unmounted",
          navigations |-> Append(navs, [to |-> <<"/">>, replace |-> TRUE,
                                        by |-> "SignUpPage"])]
    ELSE [phase |-> "mounted", navigations |-> navs]

\* A render of SignUpPage: the body of the component runs, and redirects a
\* user who is authenticated instead of rendering the form.
SignUpPageRenders(store, navs) ==
    IF isAuthenticated(store)
    THEN [phase |-> "unmounted",
          navigations |-> Append(navs, [to |-> redirectTo, replace |-> TRUE,
                                        by |-> "SignUpPage"])]
    ELSE [phase |-> "mounted", navigations |-> navs]

\* A state change of a mounted SignUpPage renders it again.
Rerender(store, navs) ==
    IF phase = "mounted" THEN SignUpPageRenders(store, navs)
    ELSE [phase |-> phase, navigations |-> navs]

\* The first render of the signup page.
MountSignUp ==
    /\ page = "signup" /\ phase = "mounting"
    /\ LET rendered == SignUpPageRenders(storage, navigations)
       IN /\ phase' = rendered.phase
          /\ navigations' = rendered.navigations
          /\ currentError' =
                 IF rendered.phase = "mounted" /\ search.error # None
                 THEN errorsGet(Get(search.error))
                 ELSE None
    /\ event' = "mount" /\ received' = None
    /\ UNCHANGED <<page, props, search, conversations, conversation,
                   currentQuestion, selectedOption, signUpForm, isLoading, call,
                   storage, timers, inflight, sent, failed, threw, clicks, lastSignUpError>>

\* The form is rendered, with the signup button unless isLoading hides it.
FormRendered == page = "signup" /\ phase = "mounted"

\* A TextInput of the form calls update(value), which dispatches
\* update-field.
TypeField ==
    /\ FormRendered
    /\ \E field \in DOMAIN FieldValues :
       \E value \in FieldValues[field] :
           signUpForm' = reducer(signUpForm, [type |-> "update-field",
                                              field |-> field,
                                              payload |-> Some(value)])
    /\ LET rendered == Rerender(storage, navigations)
       IN /\ phase' = rendered.phase
          /\ navigations' = rendered.navigations
    /\ event' = "dispatch" /\ received' = None
    /\ UNCHANGED <<page, props, search, currentError, conversations, conversation,
                   currentQuestion, selectedOption, isLoading, call, storage,
                   timers, inflight, sent, failed, threw, clicks, lastSignUpError>>

\* signUp up to its first await, run by a click on the signup button.
signUp ==
    /\ FormRendered /\ ~ isLoading
    /\ clicks < MaxClicks
    /\ clicks' = clicks + 1
    /\ event' = "signUp" /\ received' = None
    /\ IF validate(signUpForm) # "none"
       THEN /\ isLoading' = FALSE
            /\ currentError' = errorsGet(validate(signUpForm))
            /\ UNCHANGED <<inflight, sent, call>>
       ELSE /\ isLoading' = TRUE
            /\ currentError' = None
            /\ inflight' = Issue(inflight, PostSignUp,
                                 [url |-> <<"/auth/signup">>, method |-> "post",
                                  json |-> signUpForm])
            /\ sent' = Count(sent, PostSignUp)
            /\ call' = [pc |-> "signup", form |-> Some(signUpForm)]
    /\ UNCHANGED <<page, phase, props, search, conversations, conversation,
                   currentQuestion, selectedOption, signUpForm, storage, timers,
                   failed, navigations, threw, lastSignUpError>>

\* A variant of signUpStored that forgets the 'tokens' entry.
signUpStoredWithoutTokens(response) ==
    [user |-> Some(response.user), tokens |-> storage.tokens]

\* storage.set('user', ...) and storage.set('tokens', ...) of signUp.
signUpStored(response) ==
    [user |-> Some(response.user), tokens |-> Some(response.tokens)]

\* signUp after the signup request: the error is shown, or the session is
\* stored and the group joined or the user redirected.
signUpDone(i, response) ==
    /\ event' = "signUpDone" /\ received' = Some(response)
    /\ IF isErrorResponse(response)
       THEN /\ currentError' = signUpErrorMessage(response.error)
            /\ isLoading' = FALSE
            /\ failed' = Count(failed, PostSignUp)
            /\ inflight' = Settle(inflight, PostSignUp, i)
            /\ call' = NoCall
            /\ lastSignUpError' = Some([code |-> response.error.code,
                                        shown |-> currentError'])
            /\ UNCHANGED <<storage, sent, navigations, phase>>
       ELSE /\ UNCHANGED lastSignUpError
            /\ storage' = signUpStored(response)
            /\ IF orEmpty(Get(call.form).code) # << >>
               THEN /\ inflight' =
                           Issue(Settle(inflight, PostSignUp, i), PutJoin,
                                 [url |-> <<"/groups/join">>, method |-> "put",
                                  json |-> [code |-> Get(Get(call.form).code)]])
                    /\ sent' = Count(sent, PutJoin)
                    /\ call' = [call EXCEPT !.pc = "join"]
                    /\ UNCHANGED <<currentError, isLoading, failed, navigations,
                                   phase>>
               ELSE /\ inflight' = Settle(inflight, PostSignUp, i)
                    /\ isLoading' = FALSE
                    /\ navigations' = route(redirectTo, TRUE, "signUp")
                    /\ phase' = "unmounted"
                    /\ call' = NoCall
                    /\ UNCHANGED <<currentError, failed, sent>>
    /\ UNCHANGED <<page, props, search, conversations, conversation,
                   currentQuestion, selectedOption, signUpForm, timers, threw,
                   clicks>>

SignUpResponse ==
    /\ page = "signup" /\ call.pc = "signup"
    /\ \E i \in 1..Len(inflight[PostSignUp]) :
       \E response \in SignUpErrors \cup {SignUpSuccess} :
           signUpDone(i, response)

\* signUp after the join request: the error is shown and the navigation to
\* the groups page scheduled, or the user redirected.
joinDone(i, response) ==
    /\ inflight' = Settle(inflight, PutJoin, i)
    /\ event' = "joinDone" /\ received' = Some(response)
    /\ call' = NoCall
    /\ IF isErrorResponse(response)
       THEN /\ currentError' = Some(response.error.message)
            /\ timers' = timers + 1
            /\ failed' = Count(failed, PutJoin)
            /\ LET rendered == Rerender(storage, navigations)
               IN /\ phase' = rendered.phase
                  /\ navigations' = rendered.navigations
            /\ UNCHANGED isLoading
       ELSE /\ isLoading' = FALSE
            /\ navigations' = route(redirectTo, TRUE, "signUp")
            /\ phase' = "unmounted"
            /\ UNCHANGED <<currentError, timers, failed>>
    /\ UNCHANGED <<page, props, search, conversations, conversation,
                   currentQuestion, selectedOption, signUpForm, storage, sent,
                   threw, clicks, lastSignUpError>>

JoinResponse ==
    /\ page = "signup" /\ call.pc = "join"
    /\ \E i \in 1..Len(inflight[PutJoin]) :
       \E response \in ServerErrors \cup {JoinSuccess} :
           joinDone(i, response)

\* The callback of setTimeout runs: route('/groups', true).
TimerFires ==
    /\ timers > 0
    /\ timers' = timers - 1
    /\ navigations' = route(<<"/groups">>, TRUE, "setTimeout")
    /\ phase' = "unmounted"
    /\ event' = "setTimeout" /\ received' = None
    /\ UNCHANGED <<page, props, search, currentError, conversations, conversation,
                   currentQuestion, selectedOption, signUpForm, isLoading, call,
                   storage, inflight, sent, failed, threw, clicks, lastSignUpError>>

----------------------------------------------------------------------------
(* The application: the router mounts one page. *)

\* The query string the signup page may be opened with.
SearchValues ==
    {[redirect |-> None, error |-> e] :
         e \in {None, Some("weak-password"), Some("no-such-key")}}
    \cup {[redirect |-> Some(<<"/reports">>), error |-> None]}

NoSession == [user |-> None, tokens |-> None]
Session == [user |-> Some([id |-> "u0"]), tokens |-> Some([bearer |-> "t0"])]

Init ==
    /\ page \in {"list", "take", "signup"}
    /\ phase = "mounting"
    /\ props \in [conversationId : IF page = "take" THEN {"c1", "c2"} ELSE {"c1"},
                  groot : IF page = "list" THEN BOOLEAN ELSE {FALSE}]
    /\ search \in IF page = "signup" THEN SearchValues
                  ELSE {[redirect |-> None, error |-> None]}
    /\ storage \in IF page = "signup" THEN {NoSession, Session} ELSE {Session}
    /\ currentError = None
    /\ conversations = None
    /\ conversation = None
    /\ currentQuestion = None
    /\ selectedOption = None
    /\ signUpForm = [name |-> None, email |-> None, password |-> None, code |-> None]
    /\ isLoading = FALSE
    /\ call = NoCall
    /\ timers = 0
    /\ inflight = [e \in Endpoints |-> << >>]
    /\ sent = [e \in Endpoints |-> 0]
    /\ failed = [e \in Endpoints |-> 0]
    /\ navigations = << >>
    /\ threw = "none"
    /\ clicks = 0
    /\ event = "none"
    /\ received = None
    /\ lastSignUpError = None

Next ==
    \/ RenderList
    \/ MountList
    \/ ConversationsResponse
    \/ ClickTake
    \/ ClickEdit
    \/ ClickCreate
    \/ RenderTake
    \/ MountTake
    \/ ConversationResponse
    \/ QuestionsResponse
    \/ SelectOption
    \/ TypeInput
    \/ answerQuestion
    \/ AnswerResponse
    \/ MountSignUp
    \/ TypeField
    \/ signUp
    \/ SignUpResponse
    \/ JoinResponse
    \/ TimerFires

Spec == Init /\ [][Next]_vars

\* The browser runs the callback of a pending timer.
FairSpec == Spec /\ WF_vars(TimerFires)

----------------------------------------------------------------------------
(* Properties of the take conversation page and the list page. *)

\* A step of answerQuestion, run by a click on the next button.
AnswerQuestionStep ==
    page = "take" /\ event' = "answerQuestion" /\ clicks' = clicks + 1

\* The step that handles the response to an answer request.
AnswerDoneStep ==
    page = "take" /\ event' = "answerQuestionDone" /\ received' # None

\* C1: when answerQuestion runs while no option is selected, no answer
\* request is sent, currentError becomes the 'option-was-not-selected'
\* message, and currentQuestion and selectedOption are left as they were:
\* the question stays displayed.
C1_NoOptionNoRequest ==
    [][(AnswerQuestionStep /\ selectedOption = None) =>
           /\ sent' = sent
           /\ inflight' = inflight
           /\ currentError' = Some(errors["option-was-not-selected"])
           /\ currentQuestion' = currentQuestion
           /\ currentQuestion' # None
           /\ selectedOption' = None]_vars

C1_Witness ==
    /\ page = "take" /\ event = "answerQuestion"
    /\ selectedOption = None /\ currentQuestion # None
    /\ currentError = Some(errors["option-was-not-selected"])
    /\ sent[PutAnswer] = 0 /\ clicks > 0

\* C2: on a success response to an answer request, either the response
\* carries a next question, and then currentQuestion is exactly that
\* question, selectedOption is undefined and no navigation has happened; or
\* it carries none, and then the page has routed to '/conversations' and
\* currentQuestion is undefined.
C2_SuccessOutcome ==
    (page = "take" /\ event = "answerQuestionDone"
        /\ ~ isErrorResponse(Get(received))) =>
        IF Get(received).next # None
        THEN /\ currentQuestion = Get(received).next
             /\ selectedOption = None
             /\ navigations = << >>
             /\ phase = "mounted"
        ELSE /\ Len(navigations) = 1
             /\ navigations[1].to = <<"/conversations">>
             /\ currentQuestion = None

C2_Witness ==
    /\ page = "take" /\ event = "answerQuestionDone"
    /\ received = Some([next |-> Some(QuestionB)])
    /\ currentQuestion = Some(QuestionB)
    /\ sent[PutAnswer] = 2

\* C3: whenever answerQuestion has passed the selected-option check, and so
\* builds the answer request from conversation.id, the conversation has
\* been fetched: conversation is defined.
C3_ConversationFetchedBeforeAnswer ==
    [][(AnswerQuestionStep /\ selectedOption # None) => conversation # None]_vars

\* C4: an error response to an answer request is terminal.  currentError is
\* the server's message, currentQuestion and selectedOption are undefined
\* and no navigation has occurred; and from then on no answer request is
\* issued and none of these changes.
C4_AnswerErrorTerminal ==
    [][/\ (AnswerDoneStep /\ isErrorResponse(Get(received'))) =>
              /\ currentError' = Some(Get(received').error.message)
              /\ currentQuestion' = None
              /\ selectedOption' = None
              /\ navigations' = << >>
       /\ (page = "take" /\ failed[PutAnswer] > 0) =>
              /\ sent' = sent
              /\ UNCHANGED <<currentError, currentQuestion, selectedOption,
                             navigations>>]_vars

C4_Witness ==
    /\ page = "take" /\ event = "answerQuestionDone"
    /\ isErrorResponse(Get(received))
    /\ failed[PutAnswer] = 1 /\ sent[PutAnswer] = 2
    /\ currentError = Some(MsgDenied)

\* The calls of the list page and the take page.
PageEndpoints == {GetConversations, GetConversation, GetQuestions, PutAnswer}

\* The events that have triggered calls of an endpoint so far: the mount of
\* the page for the three GETs, the clicks on the next button for the PUT.
Triggers(endpoint) ==
    IF endpoint = PutAnswer THEN (IF page = "take" THEN clicks ELSE 0)
    ELSE IF phase \in {"mounting", "rendered"} THEN 0
    ELSE IF endpoint = GetConversations THEN (IF page = "list" THEN 1 ELSE 0)
    ELSE IF page = "take" THEN 1 ELSE 0

\* C5: on the list page and the take page a call is issued at most once per
\* triggering event, in the step of that event, and never again after it
\* has failed; and a failed call sets currentError to the message of the
\* server's error response.
C5_NoRetry ==
    [][\A e \in PageEndpoints :
           /\ sent'[e] <= Triggers(e)'
           /\ sent'[e] <= sent[e] + 1
           /\ sent'[e] > sent[e] =>
                  event' = (IF e = PutAnswer THEN "answerQuestion" ELSE "mount")
           /\ failed[e] > 0 => sent'[e] = sent[e]
           /\ failed'[e] > failed[e] =>
                  /\ isErrorResponse(Get(received'))
                  /\ currentError' = Some(Get(received').error.message)]_vars

C5_Witness ==
    /\ page = "take"
    /\ failed[GetConversation] = 1 /\ failed[GetQuestions] = 1
    /\ sent[GetConversation] = 1 /\ sent[GetQuestions] = 1
    /\ event = "fetchQuestions" /\ currentError = Some(MsgNotFound)

----------------------------------------------------------------------------
(* Properties of the signup page. *)

\* A step of signUp, run by a click on the signup button.
SignUpStep ==
    page = "signup" /\ event' = "signUp" /\ clicks' = clicks + 1

\* The form's fields as the claims describe them.
NonBlank(s) == \E i \in 1..Len(s) : s[i] \notin Whitespace
AroundAt(s) ==
    \E i \in 1..Len(s) :
        /\ s[i] = "@" /\ i > 1 /\ i < Len(s)
        /\ \A j \in 1..Len(s) : s[j] \notin Whitespace
Between6And256(s) == Len(s) \in 6..256

\* The key of the message of the first of the three checks the form fails.
FirstFailing(form) ==
    IF ~ NonBlank(orEmpty(form.name)) THEN "incomplete-input"
    ELSE IF ~ AroundAt(orEmpty(form.email)) THEN "invalid-email-address"
    ELSE IF ~ Between6And256(orEmpty(form.password)) THEN "weak-password"
    ELSE "none"

\* C6: the signup request is sent only by signUp and only with a form whose
\* name is not blank, whose email has non-space characters around an '@' and
\* whose password has 6 to 256 characters; otherwise signUp sends nothing,
\* isLoading is false again and currentError is the message of the first
\* failing check, in the order name, email, password.
C6_ValidatedBeforeRequest ==
    [][/\ sent'[PostSignUp] > sent[PostSignUp] =>
              /\ SignUpStep
              /\ FirstFailing(signUpForm) = "none"
              /\ inflight'[PostSignUp][Len(inflight'[PostSignUp])].json = signUpForm
       /\ (SignUpStep /\ FirstFailing(signUpForm) # "none") =>
              /\ sent' = sent
              /\ inflight' = inflight
              /\ isLoading' = FALSE
              /\ currentError' = Some(errors[FirstFailing(signUpForm)])]_vars

C6_Witness ==
    /\ page = "signup" /\ event = "signUp"
    /\ NonBlank(orEmpty(signUpForm.name))
    /\ AroundAt(orEmpty(signUpForm.email))
    /\ Len(orEmpty(signUpForm.password)) = 257
    /\ currentError = Some(errors["weak-password"])
    /\ ~ isLoading /\ sent[PostSignUp] = 0

\* The step that handles an error response to the join request.
JoinFailedStep ==
    page = "signup" /\ event' = "joinDone" /\ isErrorResponse(Get(received'))

\* The navigations a callback of setTimeout performed.
Delayed(navs) == {k \in DOMAIN navs : navs[k].by = "setTimeout"}

\* C7: when the join request returns an error after a successful sign-up,
\* currentError is set to the server's message and a single delayed
\* navigation to '/groups' is scheduled, which eventually fires; on that
\* path no navigation to the redirect parameter or '/' is ever performed;
\* and no other path schedules a delayed navigation.  The page does not
\* satisfy this: setErrorMessage renders SignUpPage again, and with the
\* session just stored the body of the component redirects at once.
C7_JoinErrorDelayedNavigation ==
    /\ [][/\ JoinFailedStep =>
                 /\ currentError' = Some(Get(received').error.message)
                 /\ timers = 0 /\ timers' = 1
                 /\ storage.tokens # None
          /\ timers' > timers => JoinFailedStep
          /\ Cardinality(Delayed(navigations')) + timers' <= 1
          /\ \A k \in Delayed(navigations') :
                 navigations'[k].to = <<"/groups">> /\ navigations'[k].replace
          /\ (page = "signup" /\ failed'[PutJoin] > 0) =>
                 \A k \in DOMAIN navigations' :
                     navigations'[k].to # redirectTo]_vars
    /\ (timers > 0) ~> (timers = 0 /\ Delayed(navigations) # {})

\* The step that handles an error response to the signup request.
SignUpFailedStep ==
    page = "signup" /\ event' = "signUpDone" /\ isErrorResponse(Get(received'))

\* C8 as claimed: the message shown for an error response to the signup
\* request is determined by the error code alone, and comes from the lookup
\* table: a response with the code of the previous error response shows the
\* message shown then.
C8_CodeAloneDecidesMessage ==
    [][SignUpFailedStep =>
           /\ \E k \in ErrorKeys : currentError' = Some(errors[k])
           /\ (lastSignUpError # None
                   /\ Get(lastSignUpError).code = Get(received').error.code) =>
                  currentError' = Get(lastSignUpError).shown]_vars

\* C8 as amended: the message shown is determined by the error code and the
\* server's message.  For 'improper-payload' it is the table's
\* 'weak-password' entry when the server's message contains 'password' and
\* its 'invalid-email-address' entry otherwise; for 'entity-already-exists'
\* it is the table's 'user-already-exists' entry; for any other code it is
\* the server's message itself.
C8_CodeAndMessageDecide ==
    (page = "signup" /\ event = "signUpDone" /\ isErrorResponse(Get(received))) =>
        LET error == Get(received).error
        IN /\ error.code = "improper-payload" =>
                  currentError = Some(errors[IF includes(error.message, WordPassword)
                                             THEN "weak-password"
                                             ELSE "invalid-email-address"])
           /\ error.code = "entity-already-exists" =>
                  currentError = Some(errors["user-already-exists"])
           /\ error.code \notin {"improper-payload", "entity-already-exists"} =>
                  currentError = Some(error.message)
           /\ lastSignUpError = Some([code |-> error.code, shown |-> currentError])

C8_Witness ==
    /\ page = "signup" /\ event = "signUpDone"
    /\ received = Some([error |-> [code |-> "improper-payload",
                                   message |-> MsgEmail]])
    /\ currentError = Some(errors["invalid-email-address"])
    /\ failed[PostSignUp] = 2

\* The step that handles a success response to the signup request.
SignUpSucceededStep ==
    page = "signup" /\ event' = "signUpDone" /\ ~ isErrorResponse(Get(received'))

\* The 'user' and 'tokens' entries of a success response, as stored.
Stored(response) ==
    [user |-> Some(response.user), tokens |-> Some(response.tokens)]

\* C9: the 'user' and 'tokens' entries are written exactly when the signup
\* request returned a success response; they are in storage by the time the
\* join request is in flight, and stay there when the join request fails.
C9_StoredIffSignedUp ==
    [][/\ storage' # storage => SignUpSucceededStep
       /\ SignUpSucceededStep => storage' = Stored(Get(received'))
       /\ (page = "signup" /\ sent'[PutJoin] > 0) =>
              /\ storage'.user # None /\ storage'.tokens # None
              /\ storage' # Session
       /\ JoinFailedStep => storage' = storage]_vars

C9_Witness ==
    /\ page = "signup" /\ event = "joinDone"
    /\ failed[PutJoin] = 1 /\ failed[PostSignUp] = 1
    /\ storage = Stored(SignUpSuccess)

\* C10: a signup page rendered for a user who is already authenticated
\* navigates, replacing history, to the redirect parameter if present and to
\* '/' otherwise, renders no form, sends no request and writes nothing to
\* storage; the redirect after a successful sign-up has the same target.
C10_AuthenticatedRedirect ==
    /\ (page = "signup" /\ storage = Session /\ phase # "mounting") =>
           /\ phase = "unmounted"
           /\ Len(navigations) = 1 /\ navigations[1].by = "SignUpPage"
           /\ \A e \in Endpoints : sent[e] = 0 /\ inflight[e] = << >>
           /\ signUpForm.name = None /\ currentError = None
    /\ \A k \in DOMAIN navigations :
           navigations[k].by \in {"SignUpPage", "signUp"} =>
               /\ navigations[k].replace
               /\ search.redirect # None => navigations[k].to = Get(search.redirect)
               /\ search.redirect = None => navigations[k].to = <<"/">>

C10_Witness ==
    /\ page = "signup" /\ storage = Session
    /\ search.redirect = Some(<<"/reports">>)
    /\ navigations = <<[to |-> <<"/reports">>, replace |-> TRUE,
                        by |-> "SignUpPage"]>>

----------------------------------------------------------------------------
(* Properties of the question and the option of the take conversation page. *)

\* The options a question holds.
OptionsOf(question) ==
    {question.options[i] : i \in 1..Len(question.options)}

\* The answer request a step has issued.
IssuedAnswer == inflight'[PutAnswer][Len(inflight'[PutAnswer])]

\* C11: whenever selectedOption is defined, currentQuestion is defined and
\* selectedOption is one of its options; and every answer request carries
\* the id of the displayed question and the position of the selected
\* option, which is an option of that question.
C11_SelectedOptionOfDisplayedQuestion ==
    [][/\ (page = "take" /\ selectedOption' # None) =>
              /\ currentQuestion' # None
              /\ Get(selectedOption') \in OptionsOf(Get(currentQuestion'))
       /\ (page = "take" /\ sent'[PutAnswer] > sent[PutAnswer]) =>
              /\ currentQuestion # None /\ selectedOption # None
              /\ Get(selectedOption) \in OptionsOf(Get(currentQuestion))
              /\ IssuedAnswer.url[4] = Get(currentQuestion).id
              /\ IssuedAnswer.json.position = Get(selectedOption).position]_vars

C11_Witness ==
    /\ page = "take" /\ sent[PutAnswer] = 1 /\ inflight[PutAnswer] = << >>
    /\ currentQuestion # None /\ Get(currentQuestion).id = "q1"
    /\ selectedOption # None
    /\ Get(selectedOption).attribute =
           Some([id |-> "a1", value |-> Some(<<"h", "i">>)])
    /\ Get(currentQuestion).options[2] = Get(selectedOption)

\* The step in which answerQuestion has passed the selected-option check.
AnswerPastCheckStep ==
    AnswerQuestionStep /\ selectedOption # None

\* A step that displays a question: the completion of fetchQuestions, or
\* the next question of a success response to an answer request.
DisplaysQuestionStep ==
    page = "take" /\ event' \in {"fetchQuestions", "answerQuestionDone"}
        /\ ~ isErrorResponse(Get(received'))

\* C12: at most one answer request is in flight at any time, and a
\* displayed question is answered at most once.  Once answerQuestion has
\* passed the selected-option check, currentQuestion and selectedOption are
\* undefined; a request is issued only by such a step, for a displayed
\* question and with none in flight; while a request is in flight no
\* question is displayed; and only a received question displays one again.
C12_OneAnswerInFlight ==
    [][page = "take" =>
           /\ Len(inflight'[PutAnswer]) <= 1
           /\ AnswerPastCheckStep =>
                  currentQuestion' = None /\ selectedOption' = None
           /\ sent'[PutAnswer] > sent[PutAnswer] =>
                  /\ AnswerPastCheckStep
                  /\ sent'[PutAnswer] = sent[PutAnswer] + 1
                  /\ currentQuestion # None
                  /\ inflight[PutAnswer] = << >>
           /\ inflight'[PutAnswer] # << >> =>
                  currentQuestion' = None /\ selectedOption' = None
           /\ (currentQuestion = None /\ currentQuestion' # None) =>
                  DisplaysQuestionStep]_vars

C12_Witness ==
    /\ page = "take" /\ event = "answerQuestion"
    /\ Len(inflight[PutAnswer]) = 1 /\ sent[PutAnswer] = 3
    /\ currentQuestion = None /\ selectedOption = None

====
